---- MODULE Spec2Model ----
(***************************************************************************)
(* Model of the audio provider of the music player                         *)
(* (src/MusicPlayer/context/AudioProvider.tsx): the one-shot               *)
(* initialization effect, the token request, the device scan, the          *)
(* concurrent per-track catalog lookups joined by Promise.all, and the     *)
(* JSON snapshot kept under the storage key "audioFiles".                  *)
(*                                                                         *)
(* JavaScript values are tagged records, strings are sequences of          *)
(* one-character strings, objects are functions from their own keys.       *)
(***************************************************************************)
EXTENDS Integers, Sequences, FiniteSets, TLC

\* ------------------------------------------------------------------ bounds

\* Largest number of audio assets the device holds.
MaxAssets == 2

\* ------------------------------------------------------- JavaScript values

Undefined == [t |-> "undefined"]
Null == [t |-> "null"]
Str(s) == [t |-> "string", s |-> s]
Arr(a) == [t |-> "array", a |-> a]

\* JavaScript truthiness of the values the provider tests (lines 147, 155):
\* undefined, null and the empty string are falsy, every array is truthy.
Truthy(v) ==
    CASE v.t = "undefined" -> FALSE
      [] v.t = "null" -> FALSE
      [] v.t = "string" -> v.s # <<>>
      [] OTHER -> TRUE

\* Property read o.k of an object: undefined when o has no own key k.
Get(o, k) == IF k \in DOMAIN o THEN o[k] ELSE Undefined

\* interface AudioFile: the three required and the three optional keys, in the
\* order the code inserts them (lines 122-126, then 76-81).
RequiredKeys == <<"id", "filename", "uri">>
OptionalKeys == <<"albumCover", "artist", "album">>
KeyOrder == RequiredKeys \o OptionalKeys

Range(s) == {s[i] : i \in 1..Len(s)}

\* ------------------------------------------------------------------- JSON

\* The characters JSON.stringify escapes inside a string literal.
NeedsEscape(c) == c \in {"\"", "\\"}

RECURSIVE EscapeString(_)
EscapeString(s) ==
    IF s = <<>> THEN <<>>
    ELSE (IF NeedsEscape(Head(s)) THEN <<"\\", Head(s)>> ELSE <<Head(s)>>)
         \o EscapeString(Tail(s))

RECURSIVE UnescapeString(_)
UnescapeString(s) ==
    IF s = <<>> THEN <<>>
    ELSE IF Head(s) = "\\" /\ Len(s) >= 2
         THEN <<s[2]>> \o UnescapeString(Tail(Tail(s)))
         ELSE <<Head(s)>> \o UnescapeString(Tail(s))

\* The text of one member value: a quoted string or the literal null.
ValueText(v) ==
    IF v.t = "string" THEN [lit |-> "string", chars |-> EscapeString(v.s)]
    ELSE [lit |-> "null", chars |-> <<>>]

TextValue(m) ==
    IF m.lit = "string" THEN Str(UnescapeString(m.chars)) ELSE Null

\* JSON.stringify of one object: its own keys in insertion order, the keys
\* whose value is undefined left out.
RECURSIVE MembersText(_, _)
MembersText(o, keys) ==
    IF keys = <<>> THEN <<>>
    ELSE (IF Head(keys) \in DOMAIN o /\ o[Head(keys)] # Undefined
          THEN <<[key |-> Head(keys), val |-> ValueText(o[Head(keys)])]>>
          ELSE <<>>)
         \o MembersText(o, Tail(keys))

ObjectText(o) == MembersText(o, KeyOrder)

\* JSON.stringify(enhancedFiles) (line 96): the text of an array of objects.
JSONstringify(files) ==
    [t |-> "text", objs |-> [i \in 1..Len(files) |-> ObjectText(files[i])]]

\* A stored value that is not JSON (a damaged entry): JSON.parse throws on it.
CorruptText == [t |-> "corrupt", objs |-> <<>>]

\* JSON.parse of one object text: one own key per member.
ParseObject(ms) ==
    [k \in {ms[j].key : j \in 1..Len(ms)} |->
        TextValue(ms[CHOOSE j \in 1..Len(ms) : ms[j].key = k].val)]

\* JSON.parse(jsonData) (line 107) of a well-formed text.
JSONparse(text) == [i \in 1..Len(text.objs) |-> ParseObject(text.objs[i])]

\* ------------------------------------------------------------ environment

\* AsyncStorage holds no entry under "audioFiles".
NoEntry == [t |-> "none", objs |-> <<>>]

Digits == <<"1", "2", "3", "4", "5">>
FirstChars == <<"a", "\"", "\\", "b", "c">>

\* The device asset number i (MediaLibrary asset: id, filename, uri).
Asset(i) ==
    [id |-> Str(<<Digits[i]>>),
     filename |-> Str(<<FirstChars[i], Digits[i], ".", "m">>),
     uri |-> Str(<<"f", ":", Digits[i]>>)]

\* Sequences over S without repetition, of length at most n.
RECURSIVE InjectiveSeqs(_, _)
InjectiveSeqs(S, n) ==
    IF n = 0 THEN {<<>>}
    ELSE LET shorter == InjectiveSeqs(S, n - 1)
         IN shorter \cup
            UNION {{Append(q, x) : x \in S \ Range(q)} : q \in shorter}

\* What the media store answers to getAssetsAsync: a list of assets with
\* distinct ids, or a failure.
AssetLists ==
    {[i \in 1..Len(q) |-> Asset(q[i])] : q \in InjectiveSeqs(1..MaxAssets, MaxAssets)}

\* The bearer token the token endpoint hands out.
Token == Str(<<"t", "k">>)

\* Outcomes of the token request: a 2xx body with access_token, a 2xx body
\* without it, a transport or non-2xx failure.
TokenResponses == {"token", "noField", "error"}

\* One item of tracks.items in a search response.
ItemFull(i) ==
    [hasAlbum |-> TRUE,
     images |-> <<Str(<<"c", Digits[i]>>)>>,
     artists |-> <<Str(<<"r", "\"", Digits[i]>>)>>,
     albumName |-> Str(<<"l", Digits[i]>>)]
ItemBare(i) ==
    [hasAlbum |-> TRUE, images |-> <<>>, artists |-> <<>>,
     albumName |-> Str(<<"l", Digits[i]>>)]
ItemNoAlbum ==
    [hasAlbum |-> FALSE, images |-> <<>>, artists |-> <<>>, albumName |-> Undefined]

\* What the catalog may answer to the lookup number i: a transport failure,
\* a body without "tracks", no item, or one item (limit=1).
CatalogResponses(i) ==
    {[kind |-> "error", hasTracks |-> FALSE, items |-> <<>>],
     [kind |-> "data", hasTracks |-> FALSE, items |-> <<>>],
     [kind |-> "data", hasTracks |-> TRUE, items |-> <<>>],
     [kind |-> "data", hasTracks |-> TRUE, items |-> <<ItemFull(i)>>],
     [kind |-> "data", hasTracks |-> TRUE, items |-> <<ItemBare(i)>>],
     [kind |-> "data", hasTracks |-> TRUE, items |-> <<ItemNoAlbum>>]}

\* Libraries an earlier run of the provider exposed and persisted.
PastLibraries ==
    {<<>>,
     <<[id |-> Str(<<"1">>), filename |-> Str(<<"a", "1", ".", "m">>),
        uri |-> Str(<<"f", ":", "1">>), albumCover |-> Str(<<"c", "1">>),
        artist |-> Str(<<"r", "\"", "1">>), album |-> Str(<<"l", "1">>)]>>,
     <<Asset(2), Asset(1), Asset(3)>>}

\* What AsyncStorage may hold under "audioFiles" at mount.
InitialEntries ==
    {NoEntry, CorruptText} \cup {JSONstringify(L) : L \in PastLibraries}

\* ------------------------------------------------------------------ state

VARIABLES
    pc,            \* position of the initialize task (lines 142-158)
    audioFiles,    \* useState audioFiles (line 31)
    loading,       \* useState loading (line 32)
    accessToken,   \* useState accessToken (line 33)
    token,         \* initialize's local token (line 143)
    cachedData,    \* initialize's local cachedData (line 146)
    storage,       \* AsyncStorage entry "audioFiles"
    pendingWrite,  \* the text handed to AsyncStorage.setItem (line 97)
    files,         \* fetchAudioFiles' local files (lines 122-126)
    lookups,       \* the promises of audioFiles.map(async ...) (lines 62-88)
    settled,       \* the lookups' indices in the order they settled
    online,        \* navigator.onLine
    permission,    \* what requestPermissionsAsync answers
    deviceAssets,  \* what getAssetsAsync answers
    mountEntry,    \* the storage entry as it was at mount
    calls,         \* how many calls of each kind were issued
    faults,        \* the failures the environment has produced so far
    escaped        \* an error left initialize unhandled

vars ==
    <<pc, audioFiles, loading, accessToken, token, cachedData, storage,
      pendingWrite, files, lookups, settled, online, permission,
      deviceAssets, mountEntry, calls, faults, escaped>>

env == <<online, permission, deviceAssets, mountEntry>>

NoCalls ==
    [token |-> 0, search |-> 0, permission |-> 0, scan |-> 0,
     getItem |-> 0, setItem |-> 0, setCached |-> 0, setEnhanced |-> 0]

Called(kind) == [calls EXCEPT ![kind] = @ + 1]

\* The provider as constructed (lines 31-33), nothing called yet.
Mounted ==
    /\ audioFiles = <<>>
    /\ loading = TRUE
    /\ accessToken = Null
    /\ token = Undefined
    /\ cachedData = Undefined
    /\ pendingWrite = NoEntry
    /\ files = <<>>
    /\ lookups = <<>>
    /\ settled = <<>>
    /\ calls = NoCalls
    /\ faults = {}
    /\ escaped = FALSE

Init ==
    /\ pc = "mount"
    /\ Mounted
    /\ storage \in InitialEntries
    /\ mountEntry = storage
    /\ online \in BOOLEAN
    /\ permission \in {"granted", "denied", "error"}
    /\ deviceAssets \in
         {[ok |-> TRUE, assets |-> l] : l \in AssetLists}
         \cup {[ok |-> FALSE, assets |-> <<>>]}

\* --------------------------------------------------- the provider's functions

\* A function's outcome: it threw, or it returned value.
Returned(v) == [threw |-> FALSE, value |-> v]
Threw == [threw |-> TRUE, value |-> Undefined]

\* The try block of fetchSpotifyToken (lines 45-53) on the response resp:
\* axios.post throws on a transport or non-2xx failure, else access_token of
\* the body is returned.
FetchSpotifyTokenBody(resp) ==
    IF resp = "error" THEN Threw
    ELSE Returned(IF resp = "token" THEN Token ELSE Undefined)

\* fetchSpotifyToken (lines 43-57): the catch logs and returns nothing.
FetchSpotifyTokenResult(resp) ==
    IF FetchSpotifyTokenBody(resp).threw THEN Returned(Undefined)
    ELSE FetchSpotifyTokenBody(resp)

\* setAccessToken(access_token) (line 52) runs unless the request threw.
AccessTokenAfter(old, resp) ==
    IF FetchSpotifyTokenBody(resp).threw THEN old
    ELSE FetchSpotifyTokenBody(resp).value

\* The try block of loadAudioDataFromStorage (lines 106-107): entry is what
\* the store holds, readFails whether getItem rejects; JSON.parse throws on
\* a text that is not JSON.
LoadAudioDataFromStorageBody(entry, readFails) ==
    IF readFails THEN Threw
    ELSE IF entry = NoEntry THEN Returned(Null)
    ELSE IF entry.t = "corrupt" THEN Threw
    ELSE Returned(Arr(JSONparse(entry)))

\* A slip: no catch around the read.
LoadWithoutCatch(entry, readFails) == LoadAudioDataFromStorageBody(entry, readFails)

\* loadAudioDataFromStorage (lines 104-111): the catch logs and returns
\* nothing.
LoadAudioDataFromStorageResult(entry, readFails) ==
    IF LoadAudioDataFromStorageBody(entry, readFails).threw
    THEN Returned(Undefined)
    ELSE LoadAudioDataFromStorageBody(entry, readFails)

\* assets.assets.map (lines 122-126).
ScannedFiles(assets) ==
    [i \in 1..Len(assets) |->
        [id |-> assets[i].id, filename |-> assets[i].filename,
         uri |-> assets[i].uri]]

\* A slip: the scanned files are serialized, not the enhanced ones.
StoreScannedFilesText(enhancedFiles) == JSONstringify(ScannedFiles(enhancedFiles))

\* JSON.stringify(enhancedFiles) in storeAudioData (line 96).
StoreAudioDataText(enhancedFiles) == JSONstringify(enhancedFiles)

\* AsyncStorage.setItem('audioFiles', jsonData) (line 97): the entry after a
\* write that succeeded or failed as a whole.
SetItem(entry, jsonData, writeFails) ==
    IF writeFails THEN entry ELSE jsonData

\* file.filename.split('.')[0] (line 64): the characters before the first dot.
RECURSIVE BeforeFirstDot(_)
BeforeFirstDot(s) ==
    IF s = <<>> \/ Head(s) = "." THEN <<>>
    ELSE <<Head(s)>> \o BeforeFirstDot(Tail(s))

\* encodeURIComponent (line 64) on the characters of the model.
EncodeChar(c) ==
    CASE c = "\"" -> <<"%", "2", "2">>
      [] c = "\\" -> <<"%", "5", "C">>
      [] c = ":" -> <<"%", "3", "A">>
      [] OTHER -> <<c>>

RECURSIVE EncodeURIComponent(_)
EncodeURIComponent(s) ==
    IF s = <<>> THEN <<>>
    ELSE EncodeChar(Head(s)) \o EncodeURIComponent(Tail(s))

SearchQuery(file) == EncodeURIComponent(BeforeFirstDot(file.filename.s))

\* x[0]?.f of lines 78-79 for a list of values: undefined when it is empty.
FirstOrUndefined(list) == IF list = <<>> THEN Undefined ELSE list[1]

\* The object of lines 76-81: file's keys, then albumCover, artist, album.
Enhanced(file, track) ==
    [k \in DOMAIN file \cup Range(OptionalKeys) |->
        CASE k = "albumCover" -> FirstOrUndefined(track.images)
          [] k = "artist" -> FirstOrUndefined(track.artists)
          [] k = "album" -> track.albumName
          [] OTHER -> file[k]]

\* The try block of the callback of audioFiles.map (lines 64-83) once its
\* request settled with resp: axios.get throws on a failure, reading
\* response.data.tracks.items or track.album.images throws on a body that
\* lacks them, no item returns file, a first item the enhanced file.
LookupBody(file, resp) ==
    IF resp.kind = "error" THEN Threw
    ELSE IF ~resp.hasTracks THEN Threw
    ELSE IF resp.items = <<>> THEN Returned(file)
    ELSE IF ~resp.items[1].hasAlbum THEN Threw
    ELSE Returned(Enhanced(file, resp.items[1]))

\* A slip: no catch in the callback.
LookupWithoutCatch(file, resp) == LookupBody(file, resp)

\* The callback of audioFiles.map (lines 62-88): the catch logs and returns
\* file.
LookupResult(file, resp) ==
    IF LookupBody(file, resp).threw THEN Returned(file)
    ELSE LookupBody(file, resp)

\* A slip: every answered status counts as a grant.
NotUndetermined(status) == status # "undetermined"

\* status === 'granted' (line 118).
Granted(status) == status = "granted"

\* A slip: the results are collected as they arrive.
EnhancedFilesInSettleOrder(ls, order) ==
    [k \in 1..Len(order) |-> ls[order[k]].out]

\* Promise.all (line 61) resolves to the callbacks' results by position,
\* whatever the order in which they settled.
EnhancedFiles(ls, order) == [i \in 1..Len(ls) |-> ls[i].out]

\* A slip: the join waits for the first result only.
AnySettled(ls) == \E i \in 1..Len(ls) : ls[i].st = "settled"

\* Promise.all resolves once every promise has.
AllSettled(ls) == \A i \in 1..Len(ls) : ls[i].st = "settled"

\* A lookup whose request is in flight, and one that has settled.
NoResponse == [kind |-> "none", hasTracks |-> FALSE, items |-> <<>>]
Pending(file) ==
    [st |-> "pending", q |-> SearchQuery(file), sent |-> 1,
     resp |-> NoResponse, out |-> Undefined]

\* A slip: a failed request is sent once more before its result counts.
SettledOrRetried(l, resp, out) ==
    IF resp.kind = "error" /\ l.sent < 2
    THEN [l EXCEPT !.sent = @ + 1]
    ELSE [l EXCEPT !.st = "settled", !.resp = resp, !.out = out]

Settled(l, resp, out) == [l EXCEPT !.st = "settled", !.resp = resp, !.out = out]

\* Slips in the cache condition: the token is asked for too; the online test
\* is inverted; the online test is missing.
ServesCacheNeedsToken == Truthy(cachedData) /\ ~online /\ Truthy(token)
ServesCacheIgnoresOnline == Truthy(cachedData)
ServesCacheInverted == Truthy(cachedData) /\ online

\* The two conditions of initialize (lines 147 and 155).
ServesCache == Truthy(cachedData) /\ ~online
Refreshes == Truthy(token) /\ online

\* ---------------------------------------------------------------- actions

\* initialize starts (line 143): the token request is sent (line 45).
FetchSpotifyToken ==
    /\ pc = "mount"
    /\ calls' = Called("token")
    /\ pc' = "awaitToken"
    /\ UNCHANGED <<audioFiles, loading, accessToken, token, cachedData,
                   storage, pendingWrite, files, lookups, settled, env,
                   faults, escaped>>

\* The token request settles; initialize goes on to read the storage
\* (lines 51-56, 143, 146, 106).
TokenSettles ==
    /\ pc = "awaitToken"
    /\ \E resp \in TokenResponses :
         LET r == FetchSpotifyTokenResult(resp)
         IN /\ faults' = IF resp = "error" THEN faults \cup {"token"} ELSE faults
            /\ IF r.threw
               THEN /\ escaped' = TRUE
                    /\ pc' = "done"
                    /\ UNCHANGED <<token, accessToken, calls>>
               ELSE /\ token' = r.value
                    /\ accessToken' = AccessTokenAfter(accessToken, resp)
                    /\ calls' = Called("getItem")
                    /\ pc' = "awaitGetItem"
                    /\ UNCHANGED escaped
    /\ UNCHANGED <<audioFiles, loading, cachedData, storage, pendingWrite,
                   files, lookups, settled, env>>

\* AsyncStorage.getItem settles and loadAudioDataFromStorage returns
\* (lines 106-110, 146).
GetItemSettles ==
    /\ pc = "awaitGetItem"
    /\ \E readFails \in BOOLEAN :
         LET r == LoadAudioDataFromStorageResult(storage, readFails)
         IN /\ faults' =
                 IF readFails THEN faults \cup {"read"}
                 ELSE IF storage.t = "corrupt" THEN faults \cup {"parse"}
                 ELSE faults
            /\ IF r.threw
               THEN /\ escaped' = TRUE
                    /\ pc' = "done"
                    /\ UNCHANGED cachedData
               ELSE /\ cachedData' = r.value
                    /\ pc' = "select"
                    /\ UNCHANGED escaped
    /\ UNCHANGED <<audioFiles, loading, accessToken, token, storage,
                   pendingWrite, files, lookups, settled, env, calls>>

\* Offline with cached data: the cache is served (lines 147-152).
ServeCache ==
    /\ pc = "select"
    /\ ServesCache
    /\ audioFiles' = cachedData.a
    /\ calls' = Called("setCached")
    /\ loading' = FALSE
    /\ pc' = "done"
    /\ UNCHANGED <<accessToken, token, cachedData, storage, pendingWrite,
                   files, lookups, settled, env, faults, escaped>>

\* Online with a token: fetchAudioFiles starts and asks for the media
\* permission (lines 155-156, 115-117).
FetchAudioFiles ==
    /\ pc = "select"
    /\ ~ServesCache
    /\ Refreshes
    /\ loading' = TRUE
    /\ calls' = Called("permission")
    /\ pc' = "awaitPermission"
    /\ UNCHANGED <<audioFiles, accessToken, token, cachedData, storage,
                   pendingWrite, files, lookups, settled, env, faults,
                   escaped>>

\* Neither condition holds: initialize returns (line 158).
InitializeReturns ==
    /\ pc = "select"
    /\ ~ServesCache
    /\ ~Refreshes
    /\ pc' = "done"
    /\ UNCHANGED <<audioFiles, loading, accessToken, token, cachedData,
                   storage, pendingWrite, files, lookups, settled, env,
                   calls, faults, escaped>>

\* The permission request settles (lines 117-121, 131-138): granted, the
\* assets are asked for; denied or failed, fetchAudioFiles ends.
PermissionSettles ==
    /\ pc = "awaitPermission"
    /\ faults' = IF permission = "error" THEN faults \cup {"permission"}
                 ELSE faults
    /\ IF permission # "error" /\ Granted(permission)
       THEN /\ calls' = Called("scan")
            /\ pc' = "awaitAssets"
            /\ UNCHANGED loading
       ELSE /\ loading' = FALSE
            /\ pc' = "done"
            /\ UNCHANGED calls
    /\ UNCHANGED <<audioFiles, accessToken, token, cachedData, storage,
                   pendingWrite, files, lookups, settled, env, escaped>>

\* getAssetsAsync settles (lines 119-128, 61-72): the assets are mapped to
\* files and one search request per file is sent; a failure ends
\* fetchAudioFiles (lines 134-138).
AssetsSettle ==
    /\ pc = "awaitAssets"
    /\ IF deviceAssets.ok
       THEN /\ files' = ScannedFiles(deviceAssets.assets)
            /\ lookups' = [i \in 1..Len(files') |-> Pending(files'[i])]
            /\ calls' = [calls EXCEPT !.search = @ + Len(files')]
            /\ pc' = "awaitLookups"
            /\ UNCHANGED <<loading, faults>>
       ELSE /\ faults' = faults \cup {"scan"}
            /\ loading' = FALSE
            /\ pc' = "done"
            /\ UNCHANGED <<files, lookups, calls>>
    /\ UNCHANGED <<audioFiles, accessToken, token, cachedData, storage,
                   pendingWrite, settled, env, escaped>>

\* One search request settles and its callback returns (lines 74-87). A
\* callback that threw would reject Promise.all and end fetchAudioFiles
\* through its catch (lines 134-138).
LookupSettles ==
    /\ pc = "awaitLookups"
    /\ \E i \in 1..Len(lookups) :
         /\ lookups[i].st = "pending"
         /\ \E resp \in CatalogResponses(i) :
              LET r == LookupResult(files[i], resp)
              IN IF r.threw
                 THEN /\ loading' = FALSE
                      /\ pc' = "done"
                      /\ UNCHANGED <<lookups, settled>>
                 ELSE /\ lookups' =
                           [lookups EXCEPT ![i] = Settled(@, resp, r.value)]
                      /\ settled' = Append(settled, i)
                      /\ UNCHANGED <<loading, pc>>
    /\ UNCHANGED <<audioFiles, accessToken, token, cachedData, storage,
                   pendingWrite, files, env, calls, faults, escaped>>

\* A slip: storeAudioData is called without await, so the finally of
\* fetchAudioFiles clears the loading flag while the write is in flight.
JoinLookupsWithoutAwait ==
    /\ pc = "awaitLookups"
    /\ AllSettled(lookups)
    /\ audioFiles' = EnhancedFiles(lookups, settled)
    /\ pendingWrite' = StoreAudioDataText(audioFiles')
    /\ calls' = [calls EXCEPT !.setEnhanced = @ + 1, !.setItem = @ + 1]
    /\ loading' = FALSE
    /\ pc' = "awaitSetItem"
    /\ UNCHANGED <<accessToken, token, cachedData, storage, files,
                   lookups, settled, env, faults, escaped>>

\* Promise.all resolves (lines 61, 89-90); the result is exposed and handed
\* to storeAudioData, which sends the write (lines 128-130, 96-97).
JoinLookups ==
    /\ pc = "awaitLookups"
    /\ AllSettled(lookups)
    /\ audioFiles' = EnhancedFiles(lookups, settled)
    /\ pendingWrite' = StoreAudioDataText(audioFiles')
    /\ calls' = [calls EXCEPT !.setEnhanced = @ + 1, !.setItem = @ + 1]
    /\ pc' = "awaitSetItem"
    /\ UNCHANGED <<loading, accessToken, token, cachedData, storage, files,
                   lookups, settled, env, faults, escaped>>

\* The write settles, storeAudioData returns (its catch takes a failed
\* write) and fetchAudioFiles ends (lines 97-100, 136-138).
SetItemSettles ==
    /\ pc = "awaitSetItem"
    /\ \E writeFails \in BOOLEAN :
         /\ storage' = SetItem(storage, pendingWrite, writeFails)
         /\ faults' = IF writeFails THEN faults \cup {"write"} ELSE faults
    /\ loading' = FALSE
    /\ pc' = "done"
    /\ UNCHANGED <<audioFiles, accessToken, token, cachedData, pendingWrite,
                   files, lookups, settled, env, calls, escaped>>

Next ==
    \/ FetchSpotifyToken
    \/ TokenSettles
    \/ GetItemSettles
    \/ ServeCache
    \/ FetchAudioFiles
    \/ InitializeReturns
    \/ PermissionSettles
    \/ AssetsSettle
    \/ LookupSettles
    \/ JoinLookups
    \/ SetItemSettles

Spec == Init /\ [][Next]_vars

\* The event loop runs a callback whose promise has settled, and every
\* search request is answered in the end (no lookup hangs).
SpecLookupsSettle ==
    Spec /\ WF_vars(LookupSettles) /\ WF_vars(JoinLookups)

\* ------------------------------------------- persist, then load (round trip)

\* Largest library persisted and loaded back.
MaxRoundTrip == 2

\* A value for the optional key k of the track number i.
OptionalValue(k, i) ==
    CASE k = "albumCover" -> Str(<<"c", "\\", Digits[i]>>)
      [] k = "artist" -> Str(<<"\"", "r", Digits[i], "\"">>)
      [] OTHER -> Str(<<"\\", "\"">>)

\* The track number i with the optional keys of set holding strings; the
\* other optional keys are missing (style "absent") or hold undefined, as
\* lines 78-79 leave them.
Track(i, set, style) ==
    [k \in Range(RequiredKeys) \cup set
           \cup (IF style = "undefined" THEN Range(OptionalKeys) ELSE {}) |->
        IF k \in Range(RequiredKeys) THEN Asset(i)[k]
        ELSE IF k \in set THEN OptionalValue(k, i)
        ELSE Undefined]

TrackShapes == (SUBSET Range(OptionalKeys)) \X {"absent", "undefined"}

Libraries ==
    UNION {{[i \in 1..n |-> Track(i, sh[i][1], sh[i][2])] :
              sh \in [1..n -> TrackShapes]} : n \in 0..MaxRoundTrip}

InitRoundTrip ==
    /\ pc = "store"
    /\ audioFiles \in Libraries
    /\ loading = FALSE
    /\ accessToken = Null
    /\ token = Undefined
    /\ cachedData = Undefined
    /\ pendingWrite = NoEntry
    /\ files = <<>>
    /\ lookups = <<>>
    /\ settled = <<>>
    /\ calls = NoCalls
    /\ faults = {}
    /\ escaped = FALSE
    /\ storage \in {NoEntry, CorruptText}
    /\ mountEntry = storage
    /\ online = TRUE
    /\ permission = "granted"
    /\ deviceAssets = [ok |-> TRUE, assets |-> <<>>]

\* storeAudioData(audioFiles) with a write that succeeds (lines 94-101).
StoreAudioData ==
    /\ pc = "store"
    /\ pendingWrite' = StoreAudioDataText(audioFiles)
    /\ storage' = SetItem(storage, pendingWrite', FALSE)
    /\ calls' = Called("setItem")
    /\ pc' = "load"
    /\ UNCHANGED <<audioFiles, loading, accessToken, token, cachedData,
                   files, lookups, settled, env, faults, escaped>>

\* loadAudioDataFromStorage() with a read that succeeds (lines 104-111).
LoadAudioDataFromStorage ==
    /\ pc = "load"
    /\ cachedData' = LoadAudioDataFromStorageResult(storage, FALSE).value
    /\ escaped' = LoadAudioDataFromStorageResult(storage, FALSE).threw
    /\ calls' = Called("getItem")
    /\ pc' = "loaded"
    /\ UNCHANGED <<audioFiles, loading, accessToken, token, storage,
                   pendingWrite, files, lookups, settled, env, faults>>

NextRoundTrip == StoreAudioData \/ LoadAudioDataFromStorage

SpecRoundTrip == InitRoundTrip /\ [][NextRoundTrip]_vars

\* ----------------------------------------------------------------- claims

\* initialize has returned or been abandoned.
Done == pc = "done"

\* The refresh has joined its lookups: its result is exposed.
Joined == pc \in {"awaitSetItem", "done"} /\ calls.setItem = 1

\* Reading every AudioFile key gives the same value in both libraries.
SameLibrary(a, b) ==
    /\ Len(a) = Len(b)
    /\ \A i \in 1..Len(a) : \A k \in Range(KeyOrder) : Get(a[i], k) = Get(b[i], k)

\* The track carries none of the optional fields.
Unenriched(rec) == \A k \in Range(OptionalKeys) : Get(rec, k) = Undefined

\* The search answered with a first item that has its album.
IsMatch(resp) ==
    /\ resp.kind = "data"
    /\ resp.hasTracks
    /\ resp.items # <<>>
    /\ resp.items[1].hasAlbum

\* C1: when the token request fails or yields no token while the device is
\* online and the media permission would be granted, initialization ends
\* with one unenriched track per device asset exposed and no error escaped.
C1_FailedTokenStillScans ==
    (Done /\ ~Truthy(token) /\ online /\ permission = "granted"
          /\ deviceAssets.ok)
    => (/\ ~escaped
        /\ Len(audioFiles) = Len(deviceAssets.assets)
        /\ \A i \in 1..Len(audioFiles) :
             /\ \A k \in Range(RequiredKeys) :
                  Get(audioFiles[i], k) = deviceAssets.assets[i][k]
             /\ Unenriched(audioFiles[i]))

\* C2: when neither selection condition holds, initialization ends with the
\* library empty and the loading flag cleared.
C2_NeitherConditionClearsLoading ==
    (Done /\ ~escaped /\ ~ServesCache /\ ~Refreshes)
    => (audioFiles = <<>> /\ loading = FALSE)

\* C3 as stated: offline with a cached snapshot, no network call at all is
\* made (no token request, no search request) and exactly the cached tracks
\* are exposed.
C3_OfflineCacheNoNetwork ==
    (Done /\ ~online /\ Truthy(cachedData))
    => (/\ calls.token = 0
        /\ calls.search = 0
        /\ audioFiles = JSONparse(storage))

\* C3 as amended: offline with a cached snapshot, the one token request of
\* initialize is the only network call (no search request is ever made) and
\* exactly the cached tracks are exposed.
C3_OfflineCacheOnlyTokenRequest ==
    (~online /\ Truthy(cachedData))
    => (/\ calls.token = 1
        /\ calls.search = 0
        /\ Done => audioFiles = JSONparse(storage))

C3_Witness ==
    /\ Done
    /\ ~online
    /\ Truthy(cachedData)
    /\ Len(audioFiles) = 3
    /\ "token" \in faults

\* C4: offline with a cached snapshot, the library equals the snapshot, the
\* loading flag is cleared, and no permission request, asset scan, lookup or
\* write of the snapshot happens, with or without a token.
C4_OfflineCacheSkipsRefresh ==
    (Done /\ ~online /\ Truthy(cachedData))
    => (/\ audioFiles = cachedData.a
        /\ SameLibrary(audioFiles, JSONparse(mountEntry))
        /\ loading = FALSE
        /\ calls.permission = 0
        /\ calls.scan = 0
        /\ calls.search = 0
        /\ calls.setItem = 0
        /\ storage = mountEntry)

C4_Witness ==
    /\ Done
    /\ ~online
    /\ Truthy(cachedData)
    /\ Truthy(token)
    /\ Len(audioFiles) >= 1
    /\ ~loading

\* C5: whatever the order in which the lookups settle and whatever their
\* outcomes, the result of the refresh is as long as the scan and its i-th
\* element carries the id, filename and uri of the i-th scanned asset.
C5_ScanOrderPreserved ==
    Joined
    => (/\ Len(audioFiles) = Len(deviceAssets.assets)
        /\ \A i \in 1..Len(audioFiles) : \A k \in Range(RequiredKeys) :
             Get(audioFiles[i], k) = deviceAssets.assets[i][k])

C5_Witness ==
    /\ Joined
    /\ Len(audioFiles) = 2
    /\ settled = <<2, 1>>
    /\ lookups[1].resp.kind = "error"
    /\ IsMatch(lookups[2].resp)

\* C6: once the assets are scanned the batch always completes; each track
\* whose lookup matched carries the first match's cover URL, artist name and
\* album name, each track whose lookup failed or matched nothing carries no
\* optional field, and a track's record depends on its own lookup only.
C6_LookupFailuresStayLocal ==
    (Done /\ calls.scan = 1 /\ deviceAssets.ok)
    => (/\ Len(audioFiles) = Len(deviceAssets.assets)
        /\ Len(lookups) = Len(audioFiles)
        /\ \A i \in 1..Len(audioFiles) :
             LET resp == lookups[i].resp
                 rec == audioFiles[i]
             IN /\ \A k \in Range(RequiredKeys) : Get(rec, k) = files[i][k]
                /\ IF IsMatch(resp)
                   THEN /\ Get(rec, "albumCover") =
                             (IF resp.items[1].images = <<>> THEN Undefined
                              ELSE resp.items[1].images[1])
                        /\ Get(rec, "artist") =
                             (IF resp.items[1].artists = <<>> THEN Undefined
                              ELSE resp.items[1].artists[1])
                        /\ Get(rec, "album") = resp.items[1].albumName
                   ELSE Unenriched(rec))

C6_Witness ==
    /\ Done
    /\ Len(audioFiles) = 2
    /\ IsMatch(lookups[1].resp)
    /\ lookups[1].resp.items[1].images # <<>>
    /\ ~Unenriched(audioFiles[1])
    /\ lookups[2].resp.kind = "data"
    /\ lookups[2].resp.hasTracks
    /\ lookups[2].resp.items = <<>>
    /\ Unenriched(audioFiles[2])

\* C7: when the media permission is denied, no asset is enumerated, no
\* lookup is issued, nothing is written, the library stays empty, no error
\* escapes, and the loading flag is cleared when the refresh ends.
C7_PermissionDenied ==
    (calls.permission = 1 /\ permission = "denied")
    => (/\ pc \in {"awaitPermission", "done"}
        /\ audioFiles = <<>>
        /\ calls.scan = 0
        /\ calls.search = 0
        /\ calls.setItem = 0
        /\ ~escaped
        /\ Done => loading = FALSE)

C7_Witness ==
    /\ Done
    /\ calls.permission = 1
    /\ permission = "denied"
    /\ deviceAssets.ok
    /\ deviceAssets.assets # <<>>

\* C8: persisting a library with storeAudioData and then loading it with
\* loadAudioDataFromStorage, with no other write and no storage failure,
\* gives a library of the same length whose tracks hold the same value in
\* every field, in the same order.
C8_RoundTrip ==
    pc = "loaded"
    => (/\ ~escaped
        /\ cachedData.t = "array"
        /\ SameLibrary(cachedData.a, audioFiles))

C8_Witness ==
    /\ pc = "loaded"
    /\ Len(audioFiles) = 2
    /\ "artist" \in DOMAIN audioFiles[1]
    /\ audioFiles[1]["artist"] = Undefined
    /\ Get(audioFiles[1], "album") # Undefined
    /\ "artist" \notin DOMAIN cachedData.a[1]

\* The lookup number i failed: transport error or malformed body.
LookupFailed(resp) == ~IsMatch(resp) /\ ~(resp.kind = "data" /\ resp.hasTracks /\ resp.items = <<>>)

\* C9: no failure leaves initialize unhandled, and each is replaced by its
\* safe default: a failed token request by an absent token, a failed or
\* undeserializable read by an absent cache, a refused permission or failed
\* scan by an empty library, a failed lookup by the unenriched track, a
\* failed write by the snapshot left as it was.
C9_NoFailureEscapes ==
    /\ ~escaped
    /\ "token" \in faults => (token = Undefined /\ accessToken = Null)
    /\ faults \cap {"read", "parse"} # {} => cachedData = Undefined
    /\ (Done /\ (faults \cap {"permission", "scan"} # {}
                 \/ (calls.permission = 1 /\ permission = "denied")))
       => (audioFiles = <<>> /\ loading = FALSE)
    /\ Joined
       => \A i \in 1..Len(lookups) :
            LookupFailed(lookups[i].resp) => audioFiles[i] = files[i]
    /\ "write" \in faults
       => (Done /\ loading = FALSE /\ storage = mountEntry
           /\ Len(audioFiles) = Len(files))

C9_Witness ==
    /\ Done
    /\ ~escaped
    /\ {"parse", "write"} \subseteq faults
    /\ Len(lookups) = 2
    /\ LookupFailed(lookups[1].resp)
    /\ LookupFailed(lookups[2].resp)

\* C10: a value the provider hands to the storage or has stored under
\* "audioFiles" is the serialization of the whole result of one refresh:
\* one record per scanned file, each the settled result of its lookup.
C10_SnapshotIsWholeResult ==
    LET whole == [i \in 1..Len(lookups) |-> lookups[i].out]
        complete ==
            /\ calls.scan = 1
            /\ Len(lookups) = Len(deviceAssets.assets)
            /\ \A i \in 1..Len(lookups) : lookups[i].st = "settled"
    IN /\ pendingWrite # NoEntry
          => (complete /\ pendingWrite = JSONstringify(whole))
       /\ storage # mountEntry
          => (complete /\ storage = JSONstringify(whole))

C10_Witness ==
    /\ Done
    /\ storage # mountEntry
    /\ Len(lookups) = 2
    /\ settled = <<2, 1>>
    /\ IsMatch(lookups[1].resp)
    /\ ~IsMatch(lookups[2].resp)

\* Some search request has not been answered yet.
SomePending == \E i \in 1..Len(lookups) : lookups[i].st = "pending"

\* The records the lookups have produced, by position.
LookupOutputs == [i \in 1..Len(lookups) |-> lookups[i].out]

\* C11: when the refresh starts waiting, every file's search request has
\* been sent; while a lookup is pending the library stays empty, the loading
\* flag stays set and nothing is handed to the storage, so nothing is
\* exposed or persisted before every lookup has settled; and when every
\* lookup settles in the end, the batch completes.
C11_FireAllJoinAll ==
    /\ [](pc = "awaitLookups"
          => (/\ Len(lookups) = Len(files)
              /\ calls.search = Len(files)
              /\ \A i \in 1..Len(lookups) : lookups[i].sent >= 1))
    /\ [](SomePending
          => (/\ audioFiles = <<>>
              /\ loading = TRUE
              /\ calls.setEnhanced = 0
              /\ calls.setItem = 0
              /\ pendingWrite = NoEntry
              /\ storage = mountEntry))
    /\ [][SomePending
          => (/\ audioFiles' = audioFiles
              /\ loading' = loading
              /\ storage' = storage
              /\ pc' = "awaitLookups")]_vars
    /\ (pc = "awaitLookups" ~> Joined)

C11_Witness ==
    /\ pc = "awaitLookups"
    /\ Len(lookups) = 2
    /\ lookups[1].st = "settled"
    /\ lookups[2].st = "pending"
    /\ calls.search = 2
    /\ audioFiles = <<>>
    /\ loading = TRUE

\* C12: the loading flag is cleared only after the write of the snapshot
\* has settled, and when the write succeeded the snapshot stored under
\* "audioFiles" is the serialization of the library then exposed.
C12_PersistedBeforeReturn ==
    /\ pc = "awaitSetItem" => loading = TRUE
    /\ (calls.setItem = 1 /\ loading = FALSE) => Done
    /\ (Done /\ calls.setItem = 1)
       => (/\ loading = FALSE
           /\ "write" \notin faults
              => (/\ storage = JSONstringify(audioFiles)
                  /\ SameLibrary(JSONparse(storage), audioFiles)))

C12_Witness ==
    /\ Done
    /\ calls.setItem = 1
    /\ "write" \notin faults
    /\ loading = FALSE
    /\ Len(audioFiles) = 2
    /\ ~Unenriched(audioFiles[2])
    /\ storage = JSONstringify(audioFiles)

\* C13: at most one token request is sent in a provider lifetime, and the
\* refresh sends exactly one search request per scanned file, whatever the
\* requests' outcomes.
C13_NoRetries ==
    /\ calls.token <= 1
    /\ Len(lookups) = Len(files)
    /\ calls.search = Len(files)
    /\ \A i \in 1..Len(lookups) : lookups[i].sent = 1

C13_Witness ==
    /\ Done
    /\ calls.token = 1
    /\ calls.search = 2
    /\ Len(lookups) = 2
    /\ lookups[1].resp.kind = "error"
    /\ lookups[2].resp.kind = "error"

\* C14: setAudioFiles runs at most once in a provider lifetime; the library
\* is the initial empty list, or the cached snapshot as loaded (offline), or
\* the whole result of one scan with every lookup settled (online); and the
\* cache path and the refresh path never both run.
C14_LibraryWrittenOnce ==
    /\ calls.setCached + calls.setEnhanced <= 1
    /\ ~(calls.setCached >= 1 /\ calls.permission >= 1)
    /\ \/ /\ calls.setCached + calls.setEnhanced = 0
          /\ audioFiles = <<>>
       \/ /\ calls.setCached = 1
          /\ ~online
          /\ mountEntry.t = "text"
          /\ audioFiles = JSONparse(mountEntry)
       \/ /\ calls.setEnhanced = 1
          /\ online
          /\ Len(lookups) = Len(deviceAssets.assets)
          /\ ~SomePending
          /\ audioFiles = LookupOutputs

C14_Witness ==
    /\ Done
    /\ calls.setEnhanced = 1
    /\ calls.setCached = 0
    /\ mountEntry.t = "text"
    /\ Len(audioFiles) = 2
    /\ audioFiles # JSONparse(mountEntry)

C16_LoadingSignalsCompletion ==
    /\ [](pc = "mount" => loading = TRUE)
    /\ [][loading = FALSE
          => (/\ loading' = FALSE
              /\ audioFiles' = audioFiles
              /\ storage' = storage)]_vars

C16_Witness ==
    /\ Done
    /\ loading = FALSE
    /\ calls.setEnhanced = 1
    /\ storage # mountEntry
    /\ Len(audioFiles) = 2
====
